---------------------------- MODULE Spec2Model ----------------------------
(***************************************************************************)
(* Model of the markdown-to-Word preview: the MathToImage component        *)
(* (formula lifecycle, staging element, rasterization) and App.handleCopy  *)
(* (readiness gate, export transform, clipboard write).                    *)
(***************************************************************************)
EXTENDS Integers, Sequences, FiniteSets, TLC

(***************************************************************************)
(* Bounds of the model.                                                    *)
(***************************************************************************)
\* total number of requests (mount or props change) issued over all occurrences
MaxRequests == 3
\* the same, in the specification that includes the copy button
MaxExportRequests == 1
\* number of fragments handleCopy builds from one and the same preview tree
MaxExports == 2

\* the formula occurrences of the preview (MathToImage instances)
Occurrences == {"o1", "o2"}

\* math sources a request can carry: empty, whitespace only, a formula, and a
\* malformed formula (a superscript without its operand)
Sources == {"", " ", "x", "x^"}

(***************************************************************************)
(* MathToImageProps: the fields the effect depends on.  quality is kept in *)
(* percent (1.0 = 100).                                                    *)
(***************************************************************************)
Requests ==
    [math : Sources, displayMode : BOOLEAN, targetDPI : {96},
     quality : {50, 100}, parentFontSize : {"16px"}]

\* the two occurrences: o1 is inline math (displayMode={false}) at the default
\* quality, o2 is block math (displayMode={true}) at quality 0.5
RequestsOf(o) ==
    {r \in Requests :
        /\ r.displayMode = (o = "o2")
        /\ r.quality = (IF o = "o2" THEN 50 ELSE 100)}

\* String.prototype.trim, for sources made of spaces and letters
RECURSIVE TrimLeft(_)
TrimLeft(s) ==
    IF Len(s) = 0 THEN s
    ELSE IF SubSeq(s, 1, 1) = " " THEN TrimLeft(SubSeq(s, 2, Len(s)))
    ELSE s

RECURSIVE TrimRight(_)
TrimRight(s) ==
    IF Len(s) = 0 THEN s
    ELSE IF SubSeq(s, Len(s), Len(s)) = " " THEN TrimRight(SubSeq(s, 1, Len(s) - 1))
    ELSE s

Trim(s) == TrimRight(TrimLeft(s))

\* the parser of KaTeX rejects the source (ParseError: expected group after '^')
ParseError(math) ==
    Len(Trim(math)) > 0 /\ SubSeq(Trim(math), Len(Trim(math)), Len(Trim(math))) = "^"

\* mutant of IsEmptySource: tests the source without trimming it
IsEmptySourceNoTrim(math) == Len(math) = 0

\* the test `!math.trim()` that skips the conversion
IsEmptySource(math) == Len(Trim(math)) = 0

\* canvas.toDataURL: the image is a function of what was typeset and captured
DataUrl(mime, req) ==
    "data:" \o mime \o ";base64," \o req.math \o "|"
      \o (IF req.displayMode THEN "block" ELSE "inline") \o "|"
      \o ToString(req.targetDPI) \o "|" \o req.parentFontSize

\* Math.max(quality, 0.8), in percent
JpegQuality(quality) == IF quality > 80 THEN quality ELSE 80

VARIABLES
    mounted,        \* occurrence -> the component has been constructed and its effect has run
    props,          \* occurrence -> the props of the latest render
    imageDataUrl,   \* occurrence -> useState('') of the component
    isLoading,      \* occurrence -> useState(true) of the component
    naturalWidth,   \* occurrence -> naturalWidth of the rendered img (0 until decoded)
    gen,            \* occurrence -> number of requests issued so far
    conversions,    \* the convertMathToImage calls that reached the staging element, in call order
    body,           \* the staging elements attached to document.body (conversion ids)
    dom,            \* the preview tree (previewRef.current), occurrences as slots
    copy,           \* the latest handleCopy invocation
    fragments,      \* the fragments built since the preview tree last changed
    sizing,         \* one capture sizing of convertMathToImage: its inputs and results
    staging,        \* one staging container of convertMathToImage: its inputs and styles
    overlay         \* the context menus and tooltips of a rendered formula image

lifecycleVars ==
    <<mounted, props, imageDataUrl, isLoading, naturalWidth, gen, conversions, body>>

exportVars == <<dom, copy, fragments>>

sizingVars == <<sizing, staging, overlay>>

vars == <<lifecycleVars, exportVars, sizingVars>>

ConvIds == 1..Len(conversions)

TotalRequests == gen["o1"] + gen["o2"]

\* the conversions of occurrence o that have not finished
InFlight(o) == {c \in ConvIds : conversions[c].occ = o /\ conversions[c].pc # "done"}

\* the request of conversion c is no longer the latest request of its occurrence
Superseded(c) == conversions[c].gen # gen[conversions[c].occ]

InitState ==
    /\ mounted = [o \in Occurrences |-> FALSE]
    /\ props = [o \in Occurrences |->
                  [math |-> "", displayMode |-> FALSE, targetDPI |-> 96,
                   quality |-> 100, parentFontSize |-> "16px"]]
    /\ imageDataUrl = [o \in Occurrences |-> ""]
    /\ isLoading = [o \in Occurrences |-> TRUE]
    /\ naturalWidth = [o \in Occurrences |-> 0]
    /\ gen = [o \in Occurrences |-> 0]
    /\ conversions = <<>>
    /\ body = {}

\* a new convertMathToImage call record: tempDiv created and appended to document.body
NewConversion(o, req, g) ==
    [occ |-> o, req |-> req, gen |-> g, pc |-> "settle",
     attaches |-> 1, detaches |-> 0,
     typeset |-> FALSE, captured |-> FALSE, encodings |-> <<>>,
     wroteImage |-> FALSE, wroteLoading |-> FALSE, stale |-> FALSE]

\* the img element of the component is in the document (third render branch)
ImgShown(o, loading, url) == ~loading /\ url # ""

\* naturalWidth of the img after a render: kept while the same img element keeps
\* the same src, 0 for a new img element or a new src, until it is decoded
RenderedWidth(o, loading, url) ==
    IF /\ ImgShown(o, loading, url)
       /\ mounted[o]
       /\ ImgShown(o, isLoading[o], imageDataUrl[o])
       /\ imageDataUrl[o] = url
    THEN naturalWidth[o]
    ELSE 0

\* mutant of RemoveTempDiv: the oldest staging element of the document is
\* removed, whichever conversion created it
RemoveTempDivOldest(c, bd) ==
    IF c \in bd THEN bd \ {CHOOSE m \in bd : \A n \in bd : m <= n} ELSE bd

\* mutant of RemoveTempDiv: the staging element is left in the document
RemoveTempDivLeak(c, bd) == bd

\* `if (tempDiv && tempDiv.parentNode) document.body.removeChild(tempDiv)`
RemoveTempDiv(c, bd) == bd \ {c}
DetachCount(c, bd) == IF c \in bd THEN 1 ELSE 0

-----------------------------------------------------------------------------
(***************************************************************************)
(* The effect of MathToImage: runs on mount and whenever one of            *)
(* [math, displayMode, targetDPI, quality, parentFontSize] changes.        *)
(* It covers setIsLoading(true) and the synchronous part of                *)
(* convertMathToImage, up to the settle delay.                             *)
(***************************************************************************)
EffectEmpty(o, req) ==
    /\ IsEmptySource(req.math)
    /\ isLoading' = [isLoading EXCEPT ![o] = FALSE]
    /\ naturalWidth' = [naturalWidth EXCEPT ![o] = RenderedWidth(o, FALSE, imageDataUrl[o])]
    /\ UNCHANGED <<imageDataUrl, conversions, body>>

\* katex.render returns: tempDiv holds the typeset formula or, for a source
\* the parser rejects, the error markup (throwOnError: false)
EffectTypesetOk(o, req) ==
    /\ ~IsEmptySource(req.math)
    /\ conversions' = Append(conversions,
                        [NewConversion(o, req, gen[o] + 1) EXCEPT !.typeset = TRUE])
    /\ body' = body \cup {Len(conversions) + 1}
    /\ isLoading' = [isLoading EXCEPT ![o] = TRUE]
    /\ naturalWidth' = [naturalWidth EXCEPT ![o] = 0]
    /\ UNCHANGED imageDataUrl

\* katex.render throws (with throwOnError: false a ParseError does not throw,
\* any other error of the engine does): the catch block detaches tempDiv and
\* clears the loading flag
EffectTypesetThrows(o, req) ==
    /\ ~IsEmptySource(req.math)
    /\ LET c == Len(conversions) + 1
           bd == body \cup {c}
       IN /\ conversions' = Append(conversions,
                 [NewConversion(o, req, gen[o] + 1) EXCEPT
                     !.typeset = TRUE, !.pc = "done",
                     !.detaches = DetachCount(c, bd), !.wroteLoading = TRUE])
          /\ body' = RemoveTempDiv(c, bd)
    /\ isLoading' = [isLoading EXCEPT ![o] = FALSE]
    /\ naturalWidth' = [naturalWidth EXCEPT ![o] = RenderedWidth(o, FALSE, imageDataUrl[o])]
    /\ UNCHANGED imageDataUrl

IssueRequest(o, req) ==
    /\ ~mounted[o] \/ req # props[o]
    /\ mounted' = [mounted EXCEPT ![o] = TRUE]
    /\ props' = [props EXCEPT ![o] = req]
    /\ gen' = [gen EXCEPT ![o] = @ + 1]
    /\ \/ EffectEmpty(o, req)
       \/ EffectTypesetOk(o, req)
       \/ EffectTypesetThrows(o, req)

\* the 100 ms settle delay elapses: measure, compute the scale, call html2canvas
SettleElapsed(c) ==
    /\ c \in ConvIds
    /\ conversions[c].pc = "settle"
    /\ conversions' = [conversions EXCEPT ![c].pc = "capture", ![c].captured = TRUE]
    /\ UNCHANGED <<mounted, props, imageDataUrl, isLoading, naturalWidth, gen, body>>

\* mutant of CatchFailure: the catch block forgets setIsLoading(false)
CatchFailureKeepsLoading(c, encs) ==
    /\ conversions' = [conversions EXCEPT
           ![c].pc = "done", ![c].encodings = encs,
           ![c].detaches = @ + DetachCount(c, body),
           ![c].stale = Superseded(c)]
    /\ body' = RemoveTempDiv(c, body)
    /\ UNCHANGED <<mounted, props, imageDataUrl, isLoading, naturalWidth, gen>>

\* the catch block of convertMathToImage
CatchFailure(c, encs) ==
    /\ conversions' = [conversions EXCEPT
           ![c].pc = "done", ![c].encodings = encs,
           ![c].detaches = @ + DetachCount(c, body),
           ![c].wroteLoading = TRUE, ![c].stale = Superseded(c)]
    /\ body' = RemoveTempDiv(c, body)
    /\ isLoading' = [isLoading EXCEPT ![conversions[c].occ] = FALSE]
    /\ naturalWidth' = [naturalWidth EXCEPT ![conversions[c].occ] =
           RenderedWidth(conversions[c].occ, FALSE, imageDataUrl[conversions[c].occ])]
    /\ UNCHANGED <<mounted, props, imageDataUrl, gen>>

\* setImageDataUrl(dataUrl); removeChild(tempDiv); setIsLoading(false)
CommitImage(c, dataUrl, encs) ==
    LET o == conversions[c].occ IN
    /\ conversions' = [conversions EXCEPT
           ![c].pc = "done", ![c].encodings = encs,
           ![c].detaches = @ + DetachCount(c, body),
           ![c].wroteImage = TRUE, ![c].wroteLoading = TRUE,
           ![c].stale = Superseded(c)]
    /\ imageDataUrl' = [imageDataUrl EXCEPT ![o] = dataUrl]
    /\ naturalWidth' = [naturalWidth EXCEPT ![o] = RenderedWidth(o, FALSE, dataUrl)]
    /\ body' = RemoveTempDiv(c, body)
    /\ isLoading' = [isLoading EXCEPT ![o] = FALSE]
    /\ UNCHANGED <<mounted, props, gen>>

\* html2canvas rejects
CaptureRejects(c) ==
    /\ c \in ConvIds
    /\ conversions[c].pc = "capture"
    /\ CatchFailure(c, <<>>)

\* html2canvas resolves and canvas.toDataURL('image/png', quality) succeeds
CapturePng(c) ==
    /\ c \in ConvIds
    /\ conversions[c].pc = "capture"
    /\ CommitImage(c, DataUrl("image/png", conversions[c].req),
                   <<[mime |-> "image/png", quality |-> conversions[c].req.quality,
                      threw |-> FALSE]>>)

\* the PNG encoding throws and canvas.toDataURL('image/jpeg', max(quality, 0.8)) succeeds
CaptureJpeg(c) ==
    /\ c \in ConvIds
    /\ conversions[c].pc = "capture"
    /\ CommitImage(c, DataUrl("image/jpeg", conversions[c].req),
                   <<[mime |-> "image/png", quality |-> conversions[c].req.quality,
                      threw |-> TRUE],
                     [mime |-> "image/jpeg",
                      quality |-> JpegQuality(conversions[c].req.quality),
                      threw |-> FALSE]>>)

\* both encodings throw
CaptureEncodeFails(c) ==
    /\ c \in ConvIds
    /\ conversions[c].pc = "capture"
    /\ CatchFailure(c,
                   <<[mime |-> "image/png", quality |-> conversions[c].req.quality,
                      threw |-> TRUE],
                     [mime |-> "image/jpeg",
                      quality |-> JpegQuality(conversions[c].req.quality),
                      threw |-> TRUE]>>)

\* the browser decodes the data URL of the rendered img
ImageDecoded(o) ==
    /\ mounted[o]
    /\ ImgShown(o, isLoading[o], imageDataUrl[o])
    /\ naturalWidth[o] = 0
    /\ naturalWidth' = [naturalWidth EXCEPT ![o] = 1]
    /\ UNCHANGED <<mounted, props, imageDataUrl, isLoading, gen, conversions, body>>
    /\ UNCHANGED <<exportVars, sizingVars>>

-----------------------------------------------------------------------------
(***************************************************************************)
(* The preview DOM.  A tree is kept as the sequence of its nodes in        *)
(* document order: an opening tag, a closing tag, a void element or a text *)
(* node; "slot" marks the place of a MathToImage occurrence.  attrs is the *)
(* sequence of <<name, value>> pairs of the tag, nw the naturalWidth of an *)
(* img element.                                                            *)
(***************************************************************************)
Open(name, attrs) == [t |-> "open", name |-> name, attrs |-> attrs, text |-> "", nw |-> 0]
Close(name) == [t |-> "close", name |-> name, attrs |-> <<>>, text |-> "", nw |-> 0]
Void(name, attrs) == [t |-> "void", name |-> name, attrs |-> attrs, text |-> "", nw |-> 0]
Text(s) == [t |-> "text", name |-> "", attrs |-> <<>>, text |-> s, nw |-> 0]
Slot(o) == [t |-> "slot", name |-> o, attrs |-> <<>>, text |-> "", nw |-> 0]

IsTag(tok) == tok.t \in {"open", "void"}

StartsWith(s, prefix) ==
    Len(s) >= Len(prefix) /\ SubSeq(s, 1, Len(prefix)) = prefix

HasAttr(tok, k) == \E i \in 1..Len(tok.attrs) : tok.attrs[i][1] = k

AttrValue(tok, k) ==
    IF HasAttr(tok, k)
    THEN tok.attrs[CHOOSE i \in 1..Len(tok.attrs) :
                      /\ tok.attrs[i][1] = k
                      /\ \A j \in 1..(i - 1) : tok.attrs[j][1] # k][2]
    ELSE ""

\* Element.removeAttribute
RemoveAttribute(tok, k) ==
    [tok EXCEPT !.attrs = SelectSeq(tok.attrs, LAMBDA a : a[1] # k)]

\* element.style.x = v: the declarations are added to the style attribute
SetStyle(tok, css) ==
    IF HasAttr(tok, "style")
    THEN [tok EXCEPT !.attrs =
             [i \in 1..Len(tok.attrs) |->
                 IF tok.attrs[i][1] = "style"
                 THEN <<"style", tok.attrs[i][2] \o " " \o css>>
                 ELSE tok.attrs[i]]]
    ELSE [tok EXCEPT !.attrs = Append(tok.attrs, <<"style", css>>)]

\* the words of a class attribute
RECURSIVE ClassWords(_, _)
ClassWords(s, word) ==
    IF Len(s) = 0 THEN (IF word = "" THEN {} ELSE {word})
    ELSE IF SubSeq(s, 1, 1) = " "
         THEN (IF word = "" THEN {} ELSE {word}) \cup ClassWords(SubSeq(s, 2, Len(s)), "")
         ELSE ClassWords(SubSeq(s, 2, Len(s)), word \o SubSeq(s, 1, 1))

\* the selector `.cls`
HasClass(tok, cls) ==
    IsTag(tok) /\ HasAttr(tok, "class") /\ cls \in ClassWords(AttrValue(tok, "class"), "")

\* index of the closing tag of the element opened at i (depth counts the open elements)
RECURSIVE MatchClose(_, _, _)
MatchClose(toks, j, depth) ==
    IF j > Len(toks) THEN Len(toks) + 1
    ELSE IF toks[j].t = "open" THEN MatchClose(toks, j + 1, depth + 1)
    ELSE IF toks[j].t = "close"
         THEN (IF depth = 1 THEN j ELSE MatchClose(toks, j + 1, depth - 1))
    ELSE MatchClose(toks, j + 1, depth)

EndOf(toks, i) == MatchClose(toks, i + 1, 1)

\* the k-th index of a set of indices, in document order
Kth(S, k) == CHOOSE i \in S : Cardinality({j \in S : j < i}) = k - 1

\* querySelectorAll('pre')
PreSet(toks) == {i \in 1..Len(toks) : toks[i].t = "open" /\ toks[i].name = "pre"}

\* pre.querySelectorAll('span[class^="hljs-"]')
HljsSpans(toks, i) ==
    {n \in (i + 1)..(EndOf(toks, i) - 1) :
        /\ toks[n].t = "open"
        /\ toks[n].name = "span"
        /\ HasAttr(toks[n], "class")
        /\ StartsWith(AttrValue(toks[n], "class"), "hljs-")}

\* pre.querySelector('code'): 0 when there is none
FirstCode(toks, i) ==
    LET S == {n \in (i + 1)..(EndOf(toks, i) - 1) :
                 toks[n].t = "open" /\ toks[n].name = "code"}
    IN IF S = {} THEN 0 ELSE Kth(S, 1)

(***************************************************************************)
(* The style sheets of the page (App.css, highlight.js github.css) as seen *)
(* through window.getComputedStyle.                                        *)
(***************************************************************************)
ComputedBackground(tok) == "rgb(246, 248, 250)"

ComputedColor(tok) ==
    IF HasClass(tok, "hljs-keyword") THEN "rgb(215, 58, 73)"
    ELSE IF HasClass(tok, "hljs-string") THEN "rgb(3, 47, 98)"
    ELSE "rgb(36, 41, 46)"

(***************************************************************************)
(* What React renders for an occurrence (the render branches of            *)
(* MathToImage, className = '').                                           *)
(***************************************************************************)
LoadingStyle(block) ==
    IF block
    THEN "display: block; min-height: 30px; min-width: 100px; text-align: center; margin: 1em auto;"
    ELSE "display: inline-block; min-width: 15px; min-height: 15px; vertical-align: baseline; margin: 0 0.05em;"

ImageStyle(block) ==
    IF block
    THEN "display: block; margin: 0.2em auto; max-width: 95%; height: auto; background-color: #ffffff;"
    ELSE "display: inline-block; margin: 0 0.15em; vertical-align: text-bottom; max-height: 1.4em; background-color: #ffffff;"

RenderOccurrence(o) ==
    IF ~mounted[o] THEN <<>>
    ELSE IF isLoading[o]
    THEN <<Open("span", << <<"class", "math-loading ">>,
                           <<"style", LoadingStyle(props[o].displayMode)>> >>),
           Text(IF props[o].displayMode THEN "loading..." ELSE "."),
           Close("span")>>
    ELSE IF imageDataUrl[o] = ""
    THEN <<Open("span", << <<"class", "math-fallback ">>,
                           <<"style", IF props[o].displayMode THEN "display: block;"
                                      ELSE "display: inline;">> >>),
           Open("span", << <<"class", "katex">> >>),
           Text(props[o].math),
           Close("span"),
           Close("span")>>
    ELSE <<[Void("img", << <<"src", imageDataUrl[o]>>,
                           <<"alt", "math: " \o props[o].math>>,
                           <<"title", "math: " \o props[o].math>>,
                           <<"class", "math-image ">>,
                           <<"style", ImageStyle(props[o].displayMode)>> >>)
             EXCEPT !.nw = naturalWidth[o]]>>

\* the preview tree with the occurrences rendered in their places
RECURSIVE Expand(_)
Expand(items) ==
    IF items = <<>> THEN <<>>
    ELSE (IF Head(items).t = "slot" THEN RenderOccurrence(Head(items).name)
          ELSE <<Head(items)>>) \o Expand(Tail(items))

(***************************************************************************)
(* The documents ReactMarkdown renders (with the table, th and td          *)
(* components of App, which set inline styles).                            *)
(***************************************************************************)
DocCode ==
    <<Open("h1", <<>>), Text("T"), Close("h1"),
      Open("p", <<>>), Text("a "), Slot("o1"), Text(" "),
          Open("code", <<>>), Text("c"), Close("code"), Close("p"),
      Open("pre", <<>>),
          Open("code", << <<"class", "hljs language-js">> >>),
              Open("span", << <<"class", "hljs-keyword">> >>), Text("if"), Close("span"),
              Text(" x\ny\n"),
          Close("code"),
      Close("pre"),
      Slot("o2")>>

DocTable ==
    <<Open("table", << <<"style", "border-collapse: collapse; width: 100%; margin-bottom: 1rem;">> >>),
          Open("thead", <<>>), Open("tr", <<>>),
              Open("th", << <<"style", "border: 1px solid #ddd; padding: 8px; background-color: #f5f5f5; text-align: left;">> >>),
              Text("H"), Close("th"),
          Close("tr"), Close("thead"),
          Open("tbody", <<>>), Open("tr", <<>>),
              Open("td", << <<"style", "border: 1px solid #ddd; padding: 8px;">> >>),
              Slot("o1"), Close("td"),
          Close("tr"), Close("tbody"),
      Close("table"),
      Open("blockquote", <<>>), Open("p", <<>>), Text("q"), Close("p"), Close("blockquote"),
      Open("h2", <<>>), Text("S"), Close("h2"),
      Slot("o2")>>

PreviewDocs == {DocCode, DocTable}

(***************************************************************************)
(* handleCopy, step 2: the loop over the code blocks.  live is the preview *)
(* (previewRef.current), clone its deep copy.                              *)
(***************************************************************************)
PreStyle(bg) ==
    "background-color: " \o bg \o "; padding: 12px 16px; margin: 16px 0; "
      \o "border: 1px solid #e9ecef; border-radius: 6px; "
      \o "font-family: Consolas, 'Courier New', Monaco, monospace; font-size: 14px; "
      \o "line-height: 1.5; white-space: pre-wrap; word-wrap: break-word; overflow-x: auto;"

\* Step A: the computed style of the original pre goes onto the cloned pre
StepA(live, clone, iL, iC) ==
    [clone EXCEPT ![iC] = SetStyle(@, PreStyle(ComputedBackground(live[iL])))]

\* Step B: the colour of each original hljs span goes onto the cloned span of
\* the same rank, whose class is removed
StepB(live, clone, iL, iC) ==
    LET origSpans == HljsSpans(live, iL)
        clonedSpans == HljsSpans(clone, iC)
        Rank(n) == Cardinality({m \in clonedSpans : m <= n})
    IN [n \in 1..Len(clone) |->
          IF n \in clonedSpans /\ Rank(n) <= Cardinality(origSpans)
          THEN RemoveAttribute(
                   SetStyle(clone[n],
                            "color: " \o ComputedColor(live[Kth(origSpans, Rank(n))]) \o ";"),
                   "class")
          ELSE clone[n]]

\* innerHTML.replace(/\n/g, '<br>') on one text node: the text is cut at each
\* newline and a br element takes the newline's place
RECURSIVE BreakLines(_, _)
BreakLines(s, line) ==
    IF Len(s) = 0 THEN (IF line = "" THEN <<>> ELSE <<Text(line)>>)
    ELSE IF SubSeq(s, 1, 1) = "\n"
         THEN (IF line = "" THEN <<>> ELSE <<Text(line)>>)
                \o <<Void("br", <<>>)>> \o BreakLines(SubSeq(s, 2, Len(s)), "")
         ELSE BreakLines(SubSeq(s, 2, Len(s)), line \o SubSeq(s, 1, 1))

RECURSIVE BreakAll(_)
BreakAll(toks) ==
    IF toks = <<>> THEN <<>>
    ELSE (IF Head(toks).t = "text" THEN BreakLines(Head(toks).text, "")
          ELSE <<Head(toks)>>) \o BreakAll(Tail(toks))

\* mutant of StepC: the newline that ends the code content is dropped
\* instead of replaced
StepCTrimsLast(tree, i) ==
    LET ci == FirstCode(tree, i)
        ce == EndOf(tree, ci)
        broken == BreakAll(SubSeq(tree, ci + 1, ce - 1))
    IN IF ci = 0 THEN tree
       ELSE SubSeq(tree, 1, ci)
              \o (IF broken # <<>> /\ broken[Len(broken)].name = "br"
                  THEN SubSeq(broken, 1, Len(broken) - 1) ELSE broken)
              \o SubSeq(tree, ce, Len(tree))

\* Step C on the pre opened at index i of tree
StepC(tree, i) ==
    LET ci == FirstCode(tree, i)
        ce == EndOf(tree, ci)
    IN IF ci = 0 THEN tree
       ELSE SubSeq(tree, 1, ci) \o BreakAll(SubSeq(tree, ci + 1, ce - 1))
              \o SubSeq(tree, ce, Len(tree))

\* mutant of InlinePre: Step C rewrites the code element of the original pre
InlinePreBreaksOriginal(live, clone, k) ==
    IF k > Cardinality(PreSet(clone)) THEN [live |-> live, clone |-> clone]
    ELSE LET iL == Kth(PreSet(live), k)
             iC == Kth(PreSet(clone), k)
         IN [live |-> StepC(live, iL),
             clone |-> StepB(live, StepA(live, clone, iL, iC), iL, iC)]

\* mutant of InlinePre: Step B removes the class of the original span
InlinePreStripsOriginal(live, clone, k) ==
    IF k > Cardinality(PreSet(clone)) THEN [live |-> live, clone |-> clone]
    ELSE LET iL == Kth(PreSet(live), k)
             iC == Kth(PreSet(clone), k)
             styled == StepA(live, clone, iL, iC)
         IN [live |-> [n \in 1..Len(live) |->
                          IF n \in HljsSpans(live, iL)
                          THEN RemoveAttribute(live[n], "class")
                          ELSE live[n]],
             clone |-> StepC([n \in 1..Len(styled) |->
                                 IF n \in HljsSpans(styled, iC)
                                 THEN SetStyle(styled[n],
                                          "color: " \o ComputedColor(live[n]) \o ";")
                                 ELSE styled[n]], iC)]

\* the body of originalPres.forEach for the k-th pre: all writes go to the clone
InlinePre(live, clone, k) ==
    IF k > Cardinality(PreSet(clone)) THEN [live |-> live, clone |-> clone]
    ELSE LET iL == Kth(PreSet(live), k)
             iC == Kth(PreSet(clone), k)
         IN [live |-> live,
             clone |-> StepC(StepB(live, StepA(live, clone, iL, iC), iL, iC), iC)]

\* originalPres.forEach.  The blocks are disjoint subtrees, so the result does
\* not depend on the order; the last block is taken first, which keeps the
\* indices of the blocks still to be visited.
RECURSIVE InlinePres(_, _, _)
InlinePres(live, clone, k) ==
    IF k = 0 THEN [live |-> live, clone |-> clone]
    ELSE LET r == InlinePre(live, clone, k)
         IN InlinePres(r.live, r.clone, k - 1)

(***************************************************************************)
(* handleCopy, serialization and post-processing.  The markup string is    *)
(* kept as its sequence of tags and text runs; the regular expression of   *)
(* an injection matches every opening tag whose text starts with "<name"   *)
(* and runs to the next ">", and the replacement appends a style attribute *)
(* to it.                                                                  *)
(***************************************************************************)
\* innerHTML: the markup of the nodes, without their DOM properties
Serialize(toks) == [i \in 1..Len(toks) |-> [toks[i] EXCEPT !.nw = 0]]

WrapperStyle ==
    "font-family: -apple-system, BlinkMacSystemFont, 'Segoe UI', 'Roboto', 'Helvetica Neue', Arial, sans-serif; "
      \o "font-size: 16px; line-height: 1.6; color: #1f2937; max-width: none; margin: 0; padding: 0; "
      \o "background-color: #ffffff; word-wrap: break-word; mso-line-height-rule: exactly; mso-text-raise: 0;"

Wrap(html) == <<Open("div", << <<"style", WrapperStyle>> >>)>> \o html \o <<Close("div")>>

\* htmlContent.replace with the pattern of tag prefix and the style css
Inject(html, prefix, css) ==
    [i \in 1..Len(html) |->
        IF IsTag(html[i]) /\ StartsWith(html[i].name, prefix)
        THEN [html[i] EXCEPT !.attrs = Append(@, <<"style", css>>)]
        ELSE html[i]]

CodeCss ==
    "background-color: #f1f3f4; color: #c7254e; padding: 2px 6px; margin: 0 2px; "
      \o "font-family: Consolas, 'Courier New', Monaco, monospace; font-size: 90%; "
      \o "font-weight: normal; border: 1px solid #d1d5db; border-radius: 3px; "
      \o "word-wrap: break-word; white-space: nowrap; vertical-align: baseline; mso-element: span;"

TableCss ==
    "border-collapse: collapse; width: 100%; margin: 16px 0; font-size: 14px; "
      \o "mso-table-lspace: 0pt; mso-table-rspace: 0pt; "
      \o "mso-table-anchor-vertical: paragraph; mso-table-anchor-horizontal: margin;"

ThCss ==
    "border: 1px solid #d0d7de; padding: 8px 12px; background-color: #f6f8fa; "
      \o "font-weight: 600; text-align: left; vertical-align: top; mso-element: th;"

TdCss == "border: 1px solid #d0d7de; padding: 8px 12px; vertical-align: top; mso-element: td;"

BlockquoteCss ==
    "margin: 16px 0; padding: 0 16px; border-left: 4px solid #d1d5db; "
      \o "background-color: #f9fafb; font-style: italic; color: #6b7280; page-break-inside: avoid;"

\* Math.max(24 - i * 2, 14)
HeadingFontSize(i) == IF 24 - i * 2 > 14 THEN 24 - i * 2 ELSE 14

HeadingCss(i) ==
    "font-size: " \o ToString(HeadingFontSize(i)) \o "px; font-weight: bold; margin: "
      \o (IF i = 1 THEN "24px" ELSE "20px") \o " 0 16px 0; color: #1f2937; "
      \o "line-height: 1.25; page-break-after: avoid; mso-element: h" \o ToString(i) \o ";"

\* for (let i = 1; i <= 6; i++) htmlContent = htmlContent.replace(<h${i}...)
RECURSIVE InjectHeadings(_, _)
InjectHeadings(html, i) ==
    IF i > 6 THEN html
    ELSE InjectHeadings(Inject(html, "h" \o ToString(i), HeadingCss(i)), i + 1)

PostProcess(html) ==
    InjectHeadings(
        Inject(Inject(Inject(Inject(Inject(html,
            "code", CodeCss), "table", TableCss), "th", ThCss), "td", TdCss),
            "blockquote", BlockquoteCss),
        1)

\* the export transform: [live |-> the preview after it, html |-> htmlContent]
ExportTransform(live) ==
    LET r == InlinePres(live, live, Cardinality(PreSet(live)))
    IN [live |-> r.live, html |-> PostProcess(Wrap(Serialize(Expand(r.clone))))]

\* mutant of LoadingImages: naturalWidth is not looked at
LoadingImagesSrcOnly(toks) ==
    {i \in 1..Len(toks) :
        /\ HasClass(toks[i], "math-image")
        /\ toks[i].name = "img"
        /\ ~StartsWith(AttrValue(toks[i], "src"), "data:image")}

\* the readiness check: the img.math-image elements that count as still loading
LoadingImages(toks) ==
    {i \in 1..Len(toks) :
        /\ HasClass(toks[i], "math-image")
        /\ toks[i].name = "img"
        /\ (~StartsWith(AttrValue(toks[i], "src"), "data:image") \/ toks[i].nw = 0)}

-----------------------------------------------------------------------------
(***************************************************************************)
(* App.handleCopy.  One invocation runs at a time in the model (the button *)
(* is not clicked again while a clipboard write is pending).  copy logs    *)
(* the latest invocation: whether it built a fragment, the clipboard tiers *)
(* it attempted, what it put on the clipboard, what it left selected and   *)
(* the alerts it showed.                                                   *)
(***************************************************************************)
NoCopy ==
    [pc |-> "none", loadingAtCall |-> FALSE, passedGate |-> FALSE,
     tiers |-> <<>>, wrote |-> "nothing", selected |-> "nothing", alerts |-> <<>>]

\* some occurrence of the preview shows the math-loading placeholder
SomeLoading == \E o \in Occurrences : mounted[o] /\ isLoading[o]

\* the clipboard branch of handleCopy and its catch block, up to the await:
\* apiAvailable is `navigator.clipboard && window.ClipboardItem`, hasSelection
\* is `window.getSelection()` being non-null, execOk the result of
\* document.execCommand('copy')
ClipboardBranch(apiAvailable, hasSelection, execOk) ==
    IF apiAvailable
    THEN [NoCopy EXCEPT !.pc = "writing", !.tiers = <<"write">>]
    ELSE IF ~hasSelection
    THEN [NoCopy EXCEPT !.pc = "done"]
    ELSE IF execOk
    THEN [NoCopy EXCEPT !.pc = "done", !.tiers = <<"execCommand">>,
                        !.wrote = "selection", !.alerts = <<"success">>]
    ELSE [NoCopy EXCEPT !.pc = "done", !.tiers = <<"execCommand", "guidance">>,
                        !.selected = "contents", !.alerts = <<"guidance">>]

\* the click on the copy button: the readiness check, then the export
\* transform and the clipboard branch
HandleCopy ==
    /\ copy.pc # "writing"
    /\ IF LoadingImages(Expand(dom)) # {}
       THEN /\ copy' = [NoCopy EXCEPT !.pc = "done", !.loadingAtCall = SomeLoading,
                                      !.alerts = <<"refusal">>]
            /\ UNCHANGED <<dom, fragments>>
       ELSE /\ Len(fragments) < MaxExports
            /\ LET r == ExportTransform(dom)
               IN /\ dom' = r.live
                  /\ fragments' = Append(fragments, r.html)
            /\ \E apiAvailable \in BOOLEAN, hasSelection \in BOOLEAN, execOk \in BOOLEAN :
                  copy' = [ClipboardBranch(apiAvailable, hasSelection, execOk)
                              EXCEPT !.loadingAtCall = SomeLoading, !.passedGate = TRUE]
    /\ UNCHANGED <<lifecycleVars, sizingVars>>

\* navigator.clipboard.write resolves
ClipboardWriteResolves ==
    /\ copy.pc = "writing"
    /\ copy' = [copy EXCEPT !.pc = "done", !.wrote = "html",
                            !.alerts = Append(@, "success")]
    /\ UNCHANGED <<lifecycleVars, dom, fragments, sizingVars>>

\* navigator.clipboard.write rejects: the catch block shows the guidance and
\* selects the preview contents
ClipboardWriteRejects ==
    /\ copy.pc = "writing"
    /\ copy' = [copy EXCEPT !.pc = "done", !.tiers = Append(@, "guidance"),
                            !.selected = "contents",
                            !.alerts = Append(@, "guidance")]
    /\ UNCHANGED <<lifecycleVars, dom, fragments, sizingVars>>

\* a render of an occurrence changes the preview tree
PreviewChanged ==
    /\ fragments' = <<>>
    /\ UNCHANGED <<dom, copy, sizingVars>>

-----------------------------------------------------------------------------
(***************************************************************************)
(* Capture sizing of convertMathToImage: the device pixel ratio, the       *)
(* measured size of the staging element, the scale and the width and       *)
(* height handed to html2canvas.  Ratios are fractions num/den, lengths of *)
(* the staging element are counted in quarters of a CSS pixel, and the     *)
(* arithmetic is exact.                                                    *)
(***************************************************************************)
MaxStagingPx == 3

TargetDPIs == {72, 96, 192, 300}

Ratio(n, d) == [defined |-> TRUE, num |-> n, den |-> d]

UndefinedRatio == [defined |-> FALSE, num |-> 0, den |-> 1]

\* the values window.devicePixelRatio can report: undefined, 0, zoomed-out
\* pages (below 1), and 1 or more
ReportedRatios ==
    {UndefinedRatio, Ratio(0, 1), Ratio(1, 2), Ratio(3, 4), Ratio(1, 1),
     Ratio(5, 4), Ratio(3, 2), Ratio(2, 1), Ratio(3, 1)}

\* the measurements of the staging element along one axis: offsetWidth,
\* scrollWidth, parseFloat(computedStyle.width) and getBoundingClientRect()
\* .width (0 also stands for NaN).  Laid out at a whole number of pixels,
\* laid out a quarter pixel wider than offsetWidth reports, and not laid out.
Measurements ==
    UNION {{[offset |-> 4 * n, scroll |-> 4 * n, computed |-> 4 * n, rect |-> 4 * n],
            [offset |-> 4 * n, scroll |-> 4 * n, computed |-> 4 * n + 1, rect |-> 4 * n + 1],
            [offset |-> 0, scroll |-> 4 * n, computed |-> 0, rect |-> 0]}
           : n \in 1..MaxStagingPx}

\* a || b on numbers
OrElse(a, b) == IF a = 0 THEN b ELSE a

Max3(a, b, c) ==
    LET ab == IF a >= b THEN a ELSE b
    IN IF ab >= c THEN ab ELSE c

\* Math.max(offset || scroll, parseFloat(computed) || 0, rect || 0)
ActualSize(m) ==
    Max3(OrElse(m.offset, m.scroll), OrElse(m.computed, 0), OrElse(m.rect, 0))

\* window.devicePixelRatio || 1
DevicePixelRatio(reported) ==
    IF reported.defined /\ reported.num # 0 THEN reported ELSE Ratio(1, 1)

ReferenceDPI == 72

\* mutant of Scale: the reference resolution is added to the target one
ScaleOffset(targetDPI, d) ==
    [num |-> (targetDPI + ReferenceDPI) * d.den, den |-> ReferenceDPI * d.num]

\* targetDPI / (72 * devicePixelRatio)
Scale(targetDPI, d) ==
    [num |-> targetDPI * d.den, den |-> ReferenceDPI * d.num]

\* Math.ceil(num / den) for num >= 0 and den > 0
Ceil(num, den) == (num + den - 1) \div den

\* mutant of CaptureSize: the product is truncated
CaptureSizeFloor(actual, scale) == (actual * scale.num) \div (4 * scale.den)

\* Math.ceil(actualWidth * scale), actual in quarters of a pixel
CaptureSize(actual, scale) == Ceil(actual * scale.num, 4 * scale.den)

NoSizing ==
    [pc |-> "none", reported |-> UndefinedRatio, targetDPI |-> 96,
     mw |-> [offset |-> 0, scroll |-> 0, computed |-> 0, rect |-> 0],
     mh |-> [offset |-> 0, scroll |-> 0, computed |-> 0, rect |-> 0],
     d |-> Ratio(1, 1), actualWidth |-> 0, actualHeight |-> 0,
     scale |-> Ratio(1, 1), width |-> 0, height |-> 0]

\* a typeset staging element and the environment of its conversion
SizingInputs ==
    {[NoSizing EXCEPT !.pc = "measured", !.reported = r, !.targetDPI = t,
                      !.mw = w, !.mh = h]
        : r \in ReportedRatios, t \in TargetDPIs, w \in Measurements, h \in Measurements}

\* devicePixelRatio, actualWidth, actualHeight and scale
ComputeScale ==
    /\ sizing.pc = "measured"
    /\ LET d == DevicePixelRatio(sizing.reported)
       IN sizing' = [sizing EXCEPT !.pc = "scaled",
                                   !.d = d,
                                   !.actualWidth = ActualSize(sizing.mw),
                                   !.actualHeight = ActualSize(sizing.mh),
                                   !.scale = Scale(sizing.targetDPI, d)]
    /\ UNCHANGED <<lifecycleVars, exportVars, staging, overlay>>

\* the width and height options of the html2canvas call
RequestCapture ==
    /\ sizing.pc = "scaled"
    /\ sizing' = [sizing EXCEPT !.pc = "captured",
                                !.width = CaptureSize(sizing.actualWidth, sizing.scale),
                                !.height = CaptureSize(sizing.actualHeight, sizing.scale)]
    /\ UNCHANGED <<lifecycleVars, exportVars, staging, overlay>>

-----------------------------------------------------------------------------
(***************************************************************************)
(* The staging container of convertMathToImage: its font size, its padding *)
(* and the padding adjustment after the settle delay.  Lengths are counted *)
(* in hundredths of a CSS pixel, em values in hundredths of an em.         *)
(***************************************************************************)
MaxSlackPx == 4

\* the parentFontSize prop: absent (or empty), and numeric pixel sizes
FontSizeContexts == {"", "0px", "12px", "16px", "20px"}

Digits == <<"0", "1", "2", "3", "4", "5", "6", "7", "8", "9">>

IsDigit(ch) == \E k \in 1..10 : Digits[k] = ch

DigitValue(ch) == (CHOOSE k \in 1..10 : Digits[k] = ch) - 1

\* parseFloat of a string that starts with a whole number: the digits are
\* read up to the first other character
RECURSIVE ParseFloat(_, _)
ParseFloat(str, acc) ==
    IF Len(str) = 0 \/ ~IsDigit(SubSeq(str, 1, 1)) THEN acc
    ELSE ParseFloat(SubSeq(str, 2, Len(str)), acc * 10 + DigitValue(SubSeq(str, 1, 1)))

Larger(a, b) == IF a >= b THEN a ELSE b

Abs(a) == IF a >= 0 THEN a ELSE 0 - a

\* mutant of BaseFontSize: the floors are left out
BaseFontSizeNoFloor(parentFontSize, displayMode) ==
    IF parentFontSize # ""
    THEN (IF displayMode THEN ParseFloat(parentFontSize, 0) * 110
          ELSE ParseFloat(parentFontSize, 0) * 100)
    ELSE (IF displayMode THEN 2000 ELSE 1600)

\* baseFontSize
BaseFontSize(parentFontSize, displayMode) ==
    IF parentFontSize # ""
    THEN (IF displayMode THEN Larger(ParseFloat(parentFontSize, 0) * 110, 1800)
          ELSE Larger(ParseFloat(parentFontSize, 0) * 100, 1400))
    ELSE (IF displayMode THEN 2000 ELSE 1600)

\* tempDiv.style.padding: '0.8em 1.0em' or '0.3em 0.5em', vertical then horizontal
PaddingEm(displayMode) == IF displayMode THEN <<80, 100>> ELSE <<30, 50>>

\* the used value of an em length
EmToPx(em, fontSize) == (em * fontSize) \div 100

\* the used padding of the container before the adjustment
UsedPadding(displayMode, fontSize) ==
    [top |-> EmToPx(PaddingEm(displayMode)[1], fontSize),
     right |-> EmToPx(PaddingEm(displayMode)[2], fontSize),
     bottom |-> EmToPx(PaddingEm(displayMode)[1], fontSize),
     left |-> EmToPx(PaddingEm(displayMode)[2], fontSize)]

\* getBoundingClientRect of the .katex element: a formula two em wide and one
\* em high
KatexRectSize(fontSize) == [width |-> 2 * fontSize, height |-> fontSize]

\* where the typeset formula lies in the content box along one axis: the
\* room the box leaves around it and the part of that room before it, in
\* whole pixels
Placements == {[slack |-> sl, before |-> b] : sl \in 0..MaxSlackPx, b \in 0..MaxSlackPx}

NoStaging ==
    [pc |-> "none", displayMode |-> FALSE, parentFontSize |-> "", found |-> FALSE,
     x |-> [slack |-> 0, before |-> 0], y |-> [slack |-> 0, before |-> 0],
     fontSize |-> 0,
     used |-> [top |-> 0, right |-> 0, bottom |-> 0, left |-> 0],
     adjusted |-> FALSE,
     padding |-> [top |-> 0, right |-> 0, bottom |-> 0, left |-> 0]]

\* a request and the layout the browser gives its typeset formula; found is
\* tempDiv.querySelector('.katex') being non-null
StagingInputs ==
    {[NoStaging EXCEPT !.pc = "requested", !.displayMode = m, !.parentFontSize = f,
                       !.found = TRUE, !.x = px, !.y = py]
        : m \in BOOLEAN, f \in FontSizeContexts,
          px \in {q \in Placements : q.before <= q.slack},
          py \in {q \in Placements : q.before <= q.slack}}
      \cup {[NoStaging EXCEPT !.pc = "requested", !.displayMode = m, !.parentFontSize = f]
              : m \in BOOLEAN, f \in FontSizeContexts}

\* the container is created, styled and appended to document.body
CreateStaging ==
    /\ staging.pc = "requested"
    /\ LET fs == BaseFontSize(staging.parentFontSize, staging.displayMode)
       IN staging' = [staging EXCEPT !.pc = "staged",
                                     !.fontSize = fs,
                                     !.used = UsedPadding(staging.displayMode, fs),
                                     !.padding = UsedPadding(staging.displayMode, fs)]
    /\ UNCHANGED <<lifecycleVars, exportVars, sizing, overlay>>

\* the four padding values written after the settle delay: the numbers parsed
\* from the two values of style.padding, moved by the adjustment and written
\* back as pixels
AdjustedPadding(em, adjustX, adjustY) ==
    [top |-> Larger(0, em[1] + adjustY),
     right |-> Larger(0, em[2] - adjustX),
     bottom |-> Larger(0, em[1] - adjustY),
     left |-> Larger(0, em[2] + adjustX)]

\* the padding adjustment after the settle delay
AdjustPadding ==
    /\ staging.pc = "staged"
    /\ LET katexRect == KatexRectSize(staging.fontSize)
           containerWidth == staging.used.left + katexRect.width
                               + 100 * staging.x.slack + staging.used.right
           containerHeight == staging.used.top + katexRect.height
                                + 100 * staging.y.slack + staging.used.bottom
           offsetX == staging.used.left + 100 * staging.x.before
           offsetY == staging.used.top + 100 * staging.y.before
           adjustY == (containerHeight - katexRect.height) \div 2 - offsetY
           adjustX == (containerWidth - katexRect.width) \div 2 - offsetX
       IN IF staging.found /\ (Abs(offsetX) > 100 \/ Abs(offsetY) > 100)
          THEN staging' = [staging EXCEPT
                              !.pc = "adjusted", !.adjusted = TRUE,
                              !.padding = AdjustedPadding(PaddingEm(staging.displayMode),
                                                          adjustX, adjustY)]
          ELSE staging' = [staging EXCEPT !.pc = "adjusted"]
    /\ UNCHANGED <<lifecycleVars, exportVars, sizing, overlay>>

-----------------------------------------------------------------------------
(***************************************************************************)
(* The context menu and the tooltip of a rendered formula image.  A click  *)
(* is one action: the listener of the clicked menu item runs first, then   *)
(* the event reaches document, where the closeMenu listeners registered by *)
(* the right-clicks run.  Each menu and tooltip keeps a log of what        *)
(* happened to it.                                                         *)
(***************************************************************************)
MaxMenus == 4

MaxTooltips == 4

\* onContextMenu: the menu is appended to document.body and its closeMenu
\* listener is registered on document
NewMenu ==
    [attached |-> TRUE, listening |-> TRUE, detaches |-> 0, failedRemovals |-> 0,
     clicked |-> FALSE]

NoOverlay == [menus |-> <<>>, tooltips |-> <<>>, pendingWrites |-> 0, alerts |-> 0]

\* document.body.removeChild(menu): throws NotFoundError for a detached menu
RemoveMenu(menu) ==
    IF menu.attached
    THEN [menu EXCEPT !.attached = FALSE, !.detaches = @ + 1]
    ELSE [menu EXCEPT !.failedRemovals = @ + 1]

\* mutant of CloseMenu: the parentNode test is left out
CloseMenuUnguarded(menu) ==
    IF menu.listening
    THEN [RemoveMenu(menu) EXCEPT !.listening = FALSE, !.clicked = TRUE]
    ELSE [menu EXCEPT !.clicked = TRUE]

\* the click reaches document: closeMenu, if it is still registered
CloseMenu(menu) ==
    IF menu.listening
    THEN [(IF menu.attached THEN RemoveMenu(menu) ELSE menu)
             EXCEPT !.listening = FALSE, !.clicked = TRUE]
    ELSE [menu EXCEPT !.clicked = TRUE]

CloseMenus(menus) == [k \in 1..Len(menus) |-> CloseMenu(menus[k])]

\* showTooltip: the tooltip is appended and its 3000 ms timer started
ShowTooltip(tooltips) == Append(tooltips, [attached |-> TRUE, pending |-> TRUE])

\* some formula image is in the document
SomeImgShown ==
    \E o \in Occurrences : mounted[o] /\ ImgShown(o, isLoading[o], imageDataUrl[o])

\* right-click on the image
OnContextMenu ==
    /\ SomeImgShown
    /\ Len(overlay.menus) < MaxMenus
    /\ overlay' = [overlay EXCEPT !.menus = Append(@, NewMenu)]
    /\ UNCHANGED <<lifecycleVars, exportVars, sizing, staging>>

\* click on "copy formula text" of menu m.  Without navigator.clipboard the
\* listener throws before it removes the menu; the click still reaches
\* document
ClickCopyText(m) ==
    /\ m \in 1..Len(overlay.menus)
    /\ overlay.menus[m].attached
    /\ \E apiAvailable \in BOOLEAN :
          overlay' = [overlay EXCEPT
              !.pendingWrites = IF apiAvailable THEN @ + 1 ELSE @,
              !.menus = CloseMenus(IF apiAvailable
                                   THEN [@ EXCEPT ![m] = RemoveMenu(@)]
                                   ELSE @)]
    /\ UNCHANGED <<lifecycleVars, exportVars, sizing, staging>>

\* navigator.clipboard.writeText resolves: the tooltip is shown
WriteTextResolves ==
    /\ overlay.pendingWrites > 0
    /\ Len(overlay.tooltips) < MaxTooltips
    /\ overlay' = [overlay EXCEPT !.pendingWrites = @ - 1,
                                  !.tooltips = ShowTooltip(@)]
    /\ UNCHANGED <<lifecycleVars, exportVars, sizing, staging>>

\* navigator.clipboard.writeText rejects: alert
WriteTextRejects ==
    /\ overlay.pendingWrites > 0
    /\ overlay' = [overlay EXCEPT !.pendingWrites = @ - 1, !.alerts = 1]
    /\ UNCHANGED <<lifecycleVars, exportVars, sizing, staging>>

\* click on "download image file" of menu m
ClickDownload(m) ==
    /\ m \in 1..Len(overlay.menus)
    /\ overlay.menus[m].attached
    /\ Len(overlay.tooltips) < MaxTooltips
    /\ overlay' = [overlay EXCEPT
          !.tooltips = ShowTooltip(@),
          !.menus = CloseMenus([@ EXCEPT ![m] = RemoveMenu(@)])]
    /\ UNCHANGED <<lifecycleVars, exportVars, sizing, staging>>

\* click anywhere else in the document
DocumentClick ==
    /\ overlay.menus # <<>>
    /\ overlay' = [overlay EXCEPT !.menus = CloseMenus(@)]
    /\ UNCHANGED <<lifecycleVars, exportVars, sizing, staging>>

\* the timer of tooltip t fires
TooltipTimeout(t) ==
    /\ t \in 1..Len(overlay.tooltips)
    /\ overlay.tooltips[t].pending
    /\ overlay' = [overlay EXCEPT !.tooltips[t] = [attached |-> FALSE, pending |-> FALSE]]
    /\ UNCHANGED <<lifecycleVars, exportVars, sizing, staging>>

\* the state of the component after one request for "x" of occurrence o1 has
\* been converted and its image decoded
RenderedRequest ==
    [math |-> "x", displayMode |-> FALSE, targetDPI |-> 96, quality |-> 100,
     parentFontSize |-> "16px"]

RenderedState ==
    /\ mounted = [o \in Occurrences |-> o = "o1"]
    /\ props = [o \in Occurrences |->
                  IF o = "o1" THEN RenderedRequest
                  ELSE [math |-> "", displayMode |-> FALSE, targetDPI |-> 96,
                        quality |-> 100, parentFontSize |-> "16px"]]
    /\ imageDataUrl = [o \in Occurrences |->
                         IF o = "o1" THEN DataUrl("image/png", RenderedRequest) ELSE ""]
    /\ isLoading = [o \in Occurrences |-> o # "o1"]
    /\ naturalWidth = [o \in Occurrences |-> IF o = "o1" THEN 1 ELSE 0]
    /\ gen = [o \in Occurrences |-> IF o = "o1" THEN 1 ELSE 0]
    /\ conversions =
          <<[NewConversion("o1", RenderedRequest, 1) EXCEPT
                !.pc = "done", !.typeset = TRUE, !.captured = TRUE, !.detaches = 1,
                !.encodings = <<[mime |-> "image/png", quality |-> 100,
                                 threw |-> FALSE]>>,
                !.wroteImage = TRUE, !.wroteLoading = TRUE]>>
    /\ body = {}

Init ==
    /\ InitState
    /\ dom = DocCode
    /\ copy = NoCopy
    /\ fragments = <<>>
    /\ sizing = NoSizing
    /\ staging = NoStaging
    /\ overlay = NoOverlay

\* the formula lifecycle alone
Next ==
    \/ \E o \in Occurrences : \E req \in RequestsOf(o) :
           TotalRequests < MaxRequests /\ IssueRequest(o, req) /\ PreviewChanged
    \/ \E c \in ConvIds : SettleElapsed(c) /\ PreviewChanged
    \/ \E c \in ConvIds : CaptureRejects(c) /\ PreviewChanged
    \/ \E c \in ConvIds : CapturePng(c) /\ PreviewChanged
    \/ \E c \in ConvIds : CaptureJpeg(c) /\ PreviewChanged
    \/ \E c \in ConvIds : CaptureEncodeFails(c) /\ PreviewChanged
    \/ \E o \in Occurrences : ImageDecoded(o)

Spec == Init /\ [][Next]_vars

InitExport ==
    /\ InitState
    /\ dom \in PreviewDocs
    /\ copy = NoCopy
    /\ fragments = <<>>
    /\ sizing = NoSizing
    /\ staging = NoStaging
    /\ overlay = NoOverlay

\* the formula lifecycle together with the copy button
NextExport ==
    \/ \E o \in Occurrences : \E req \in RequestsOf(o) :
           TotalRequests < MaxExportRequests /\ IssueRequest(o, req) /\ PreviewChanged
    \/ \E c \in ConvIds : SettleElapsed(c) /\ PreviewChanged
    \/ \E c \in ConvIds : CaptureRejects(c) /\ PreviewChanged
    \/ \E c \in ConvIds : CapturePng(c) /\ PreviewChanged
    \/ \E c \in ConvIds : CaptureJpeg(c) /\ PreviewChanged
    \/ \E c \in ConvIds : CaptureEncodeFails(c) /\ PreviewChanged
    \/ \E o \in Occurrences : ImageDecoded(o)
    \/ HandleCopy
    \/ ClipboardWriteResolves
    \/ ClipboardWriteRejects

SpecExport == InitExport /\ [][NextExport]_vars

InitScale ==
    /\ InitState
    /\ dom = DocCode
    /\ copy = NoCopy
    /\ fragments = <<>>
    /\ sizing \in SizingInputs
    /\ staging = NoStaging
    /\ overlay = NoOverlay

\* the capture sizing alone, over its inputs
NextScale ==
    \/ ComputeScale
    \/ RequestCapture

SpecScale == InitScale /\ [][NextScale]_vars

InitStaging ==
    /\ InitState
    /\ dom = DocCode
    /\ copy = NoCopy
    /\ fragments = <<>>
    /\ sizing = NoSizing
    /\ staging \in StagingInputs
    /\ overlay = NoOverlay

\* the staging container alone, over its inputs
NextStaging ==
    \/ CreateStaging
    \/ AdjustPadding

SpecStaging == InitStaging /\ [][NextStaging]_vars

InitMenu ==
    /\ RenderedState
    /\ dom = DocCode
    /\ copy = NoCopy
    /\ fragments = <<>>
    /\ sizing = NoSizing
    /\ staging = NoStaging
    /\ overlay = NoOverlay

\* the context menu and tooltips of a rendered formula image
NextMenu ==
    \/ OnContextMenu
    \/ \E m \in 1..MaxMenus : ClickCopyText(m)
    \/ \E m \in 1..MaxMenus : ClickDownload(m)
    \/ WriteTextResolves
    \/ WriteTextRejects
    \/ DocumentClick
    \/ \E t \in 1..MaxTooltips : TooltipTimeout(t)

SpecMenu == InitMenu /\ [][NextMenu]_vars

-----------------------------------------------------------------------------
(***************************************************************************)
(* What the component renders (the three render branches).                 *)
(***************************************************************************)
View(o) ==
    IF isLoading[o] THEN "Loading"
    ELSE IF imageDataUrl[o] = "" THEN "Fallback"
    ELSE "Rendered"

\* the data URLs a conversion of request req can commit
ImagesOf(req) == {DataUrl("image/png", req), DataUrl("image/jpeg", req)}

ConversionsOf(o) == {c \in ConvIds : conversions[c].occ = o}

\* every conversion started for o has resolved or failed
Settled(o) == mounted[o] /\ InFlight(o) = {}

\* the conversion of the latest request of o, if that request started one
LatestConversion(o) == {c \in ConversionsOf(o) : conversions[c].gen = gen[o]}

\* a source made of whitespace only (the empty string included)
BlankSource(math) == \A i \in 1..Len(math) : SubSeq(math, i, i) = " "

(***************************************************************************)
(* C1: supersession, final state.  When request A was still in flight as a *)
(* later request B with different props was issued, then once all          *)
(* conversions of the occurrence have resolved the displayed image is      *)
(* the one computed from B's inputs and never one computed from A's (here  *)
(* for the case where B's own conversion produced an image).               *)
(***************************************************************************)
C1_SupersededFinalState ==
    \A o \in Occurrences :
        (Settled(o) /\ \E b \in LatestConversion(o) : conversions[b].wroteImage)
            => \A a \in ConversionsOf(o) :
                   (conversions[a].stale /\ conversions[a].req # props[o])
                       => /\ imageDataUrl[o] \notin ImagesOf(conversions[a].req)
                          /\ imageDataUrl[o] \in ImagesOf(props[o])

(***************************************************************************)
(* C2: supersession, every state.  A conversion whose request is no longer *)
(* the latest of its occurrence when it resolves performs neither          *)
(* setImageDataUrl nor setIsLoading(false).                                *)
(***************************************************************************)
C2_SupersededNeverWrites ==
    \A c \in ConvIds :
        conversions[c].stale =>
            (~conversions[c].wroteImage /\ ~conversions[c].wroteLoading)

(***************************************************************************)
(* C4: settlement.  Once every conversion started for an occurrence has    *)
(* resolved or failed, the occurrence is not Loading, it is Rendered or    *)
(* Fallback, and what it displays changes only with a new request.         *)
(***************************************************************************)
C4_SettledState ==
    \A o \in Occurrences :
        Settled(o) => (~isLoading[o] /\ View(o) \in {"Rendered", "Fallback"})

C4_SettledStep ==
    \A o \in Occurrences :
        (Settled(o) /\ gen'[o] = gen[o])
            => (isLoading'[o] = isLoading[o] /\ imageDataUrl'[o] = imageDataUrl[o]
                /\ props'[o] = props[o])

C4_Settlement == [](C4_SettledState) /\ [][C4_SettledStep]_vars

\* an occurrence settled after two overlapping conversions, one of which failed
C4_Witness ==
    \E o \in Occurrences :
        /\ Settled(o)
        /\ Cardinality(ConversionsOf(o)) >= 2
        /\ \E c \in ConversionsOf(o) : conversions[c].stale
        /\ \E c \in ConversionsOf(o) : ~conversions[c].wroteImage

(***************************************************************************)
(* C5: staging release.  Every staging element attached to document.body  *)
(* is attached while its conversion runs and is detached exactly once when *)
(* the conversion finishes, on every exit path and also when superseded;   *)
(* when all conversions have finished none remains attached.               *)
(***************************************************************************)
C5_StagingReleased ==
    /\ \A c \in ConvIds :
          /\ conversions[c].attaches = 1
          /\ conversions[c].pc = "done"
                => (conversions[c].detaches = 1 /\ c \notin body)
          /\ conversions[c].pc # "done"
                => (conversions[c].detaches = 0 /\ c \in body)
    /\ body \subseteq ConvIds

\* a superseded conversion and a failed one have both finished
C5_Witness ==
    /\ \E c \in ConvIds : conversions[c].stale /\ conversions[c].pc = "done"
    /\ \E c \in ConvIds : conversions[c].pc = "done" /\ ~conversions[c].wroteImage
    /\ \E c \in ConvIds : conversions[c].pc = "done" /\ conversions[c].wroteImage
    /\ body = {}

(***************************************************************************)
(* C6: fallback on failure or empty source.  When no conversion of the     *)
(* occurrence was ever superseded and the latest request failed or has an  *)
(* empty source, the settled occurrence displays the fallback, not an      *)
(* image (the claim states it for every history; this is the case of       *)
(* histories without overlap).                                             *)
(***************************************************************************)
C6_FallbackOnFailure ==
    \A o \in Occurrences :
        ( /\ Settled(o)
          /\ \A c \in ConversionsOf(o) : ~conversions[c].stale
          /\ \/ BlankSource(props[o].math)
             \/ \E c \in LatestConversion(o) : ~conversions[c].wroteImage )
        => View(o) = "Fallback"

(***************************************************************************)
(* C7: empty source.  While the latest request of an occurrence has an     *)
(* empty or whitespace-only source the occurrence is not Loading, and that *)
(* request has no staging element, typesetting, settle delay, capture or   *)
(* encoding (no conversion record exists for it).                          *)
(***************************************************************************)
C7_EmptySourceSkips ==
    \A o \in Occurrences :
        (mounted[o] /\ BlankSource(props[o].math))
            => (~isLoading[o] /\ LatestConversion(o) = {})

\* a whitespace-only request issued while an older conversion is in flight
C7_Witness ==
    \E o \in Occurrences :
        /\ mounted[o]
        /\ props[o].math = " "
        /\ InFlight(o) # {}

\* a fragment has a tag of this name
HasTag(html, name) == \E i \in 1..Len(html) : IsTag(html[i]) /\ html[i].name = name

AllSettled == \A o \in Occurrences : InFlight(o) = {}

(***************************************************************************)
(* C3: export refusal.  A handleCopy invoked while some occurrence of the  *)
(* preview is Loading builds no fragment, attempts no clipboard write and  *)
(* no selection-based copy, and shows the refusal message.                 *)
(***************************************************************************)
C3_RefusedWhileLoading ==
    (copy.pc # "none" /\ copy.loadingAtCall)
        => /\ ~copy.passedGate
           /\ copy.tiers = <<>>
           /\ copy.wrote = "nothing"
           /\ copy.alerts = <<"refusal">>

(***************************************************************************)
(* C8: the export does not mutate the live preview.  A handleCopy step     *)
(* that passes the readiness check and builds a fragment leaves the        *)
(* preview tree and every occurrence's state as they were.                 *)
(***************************************************************************)
C8_PreviewNotMutated ==
    [][Len(fragments') > Len(fragments) => (dom' = dom /\ UNCHANGED lifecycleVars)]_vars

\* an export of the document with a highlighted two-line code block has run:
\* its fragment has the line breaks and the live tree still has the newlines
C8_Witness ==
    /\ copy.passedGate
    /\ Len(fragments) >= 1
    /\ HasTag(fragments[1], "br")
    /\ HasTag(dom, "pre")
    /\ ~HasTag(dom, "br")

(***************************************************************************)
(* C9: export idempotence.  The fragments built from one and the same      *)
(* settled preview tree, with no request or render in between, are         *)
(* identical.                                                              *)
(***************************************************************************)
C9_ExportIdempotent ==
    AllSettled =>
        \A i \in 1..Len(fragments) : \A j \in 1..Len(fragments) :
            fragments[i] = fragments[j]

\* two exports of the settled document with the code block and a rendered formula
C9_Witness ==
    /\ AllSettled
    /\ Len(fragments) >= 2
    /\ HasTag(dom, "pre")
    /\ HasTag(fragments[2], "img")

(***************************************************************************)
(* C10: clipboard tiers in order.  When the structured clipboard write is  *)
(* attempted and fails, the selection-based copy is attempted next; the    *)
(* manual-selection guidance is reached only after the selection-based     *)
(* copy has been attempted and has failed too; a tier that succeeds ends   *)
(* the attempt with the success message.                                   *)
(***************************************************************************)
C10_TiersInOrder ==
    copy.pc = "done" =>
        LET Attempted(tier) == \E i \in 1..Len(copy.tiers) : copy.tiers[i] = tier
        IN /\ (Attempted("write") /\ copy.wrote # "html")
                 => (Len(copy.tiers) >= 2 /\ copy.tiers[2] = "execCommand")
           /\ Attempted("guidance") => Attempted("execCommand")
           /\ copy.wrote # "nothing" => copy.alerts = <<"success">>

(***************************************************************************)
(* C11: structured-write API unavailable.  A handleCopy that built its     *)
(* fragment and did not take the structured clipboard write has attempted  *)
(* the selection-based copy and has shown the success message or the       *)
(* failure guidance; it never ends without a message.                      *)
(***************************************************************************)
C11_LegacyPathAlwaysReports ==
    ( /\ copy.pc = "done"
      /\ copy.passedGate
      /\ \A i \in 1..Len(copy.tiers) : copy.tiers[i] # "write" )
        => /\ Len(copy.tiers) >= 1
           /\ copy.tiers[1] = "execCommand"
           /\ copy.alerts \in {<<"success">>, <<"guidance">>}

(***************************************************************************)
(* C12: no class names in the export.  No element of a fragment built by   *)
(* handleCopy carries a class attribute.                                   *)
(***************************************************************************)
C12_NoClassInFragment ==
    \A k \in 1..Len(fragments) :
        \A i \in 1..Len(fragments[k]) :
            IsTag(fragments[k][i]) => ~HasAttr(fragments[k][i], "class")

\* the content of the code element of the k-th pre of a tree
CodeContent(toks, k) ==
    LET i == Kth(PreSet(toks), k)
        ci == FirstCode(toks, i)
    IN IF ci = 0 THEN <<>> ELSE SubSeq(toks, ci + 1, EndOf(toks, ci) - 1)

\* a content read as one string, a line-break element counting as a newline
RECURSIVE Flat(_)
Flat(toks) ==
    IF toks = <<>> THEN ""
    ELSE (IF Head(toks).t = "text" THEN Head(toks).text
          ELSE IF Head(toks).name = "br" THEN "\n"
          ELSE "<" \o Head(toks).t \o " " \o Head(toks).name \o ">")
            \o Flat(Tail(toks))

HasNewline(s) == \E i \in 1..Len(s) : SubSeq(s, i, i) = "\n"

BrCount(toks) == Cardinality({i \in 1..Len(toks) : toks[i].name = "br"})

(***************************************************************************)
(* C13: code newlines.  For every pre block of the preview, the content of *)
(* its code element in a fragment has no newline character, and it is the  *)
(* original content with a br element in the place of each newline.        *)
(***************************************************************************)
C13_CodeNewlines ==
    \A k \in 1..Len(fragments) :
        /\ Cardinality(PreSet(fragments[k])) = Cardinality(PreSet(dom))
        /\ \A j \in 1..Cardinality(PreSet(dom)) :
              LET out == CodeContent(fragments[k], j)
                  orig == CodeContent(dom, j)
              IN /\ \A n \in 1..Len(out) :
                        out[n].t = "text" => ~HasNewline(out[n].text)
                 /\ BrCount(orig) = 0
                 /\ Flat(out) = Flat(orig)

\* the code block with two newlines, one of them ending the content, has
\* been exported
C13_Witness ==
    /\ Len(fragments) >= 1
    /\ Cardinality(PreSet(dom)) = 1
    /\ HasNewline(Flat(CodeContent(dom, 1)))
    /\ BrCount(CodeContent(fragments[1], 1)) = 2

\* the sizing has computed its scale
Scaled == sizing.pc \in {"scaled", "captured"}

\* c is the least whole number of pixels that is at least actual * scale
IsCeilOfProduct(c, actual, scale) ==
    /\ actual * scale.num <= c * 4 * scale.den
    /\ (c - 1) * 4 * scale.den < actual * scale.num

(***************************************************************************)
(* C14: capture size.  For every target resolution and every reported      *)
(* device pixel ratio the scale is targetDPI / (72 * d) and is positive,   *)
(* and the width and height handed to the rasterizer are the ceilings of   *)
(* actualWidth * scale and actualHeight * scale, with the one scale.       *)
(***************************************************************************)
C14_CaptureSize ==
    /\ Scaled =>
          /\ sizing.scale.num > 0
          /\ sizing.scale.den > 0
          /\ sizing.scale.num * 72 * sizing.d.num
                = sizing.targetDPI * sizing.d.den * sizing.scale.den
    /\ sizing.pc = "captured" =>
          /\ IsCeilOfProduct(sizing.width, sizing.actualWidth, sizing.scale)
          /\ IsCeilOfProduct(sizing.height, sizing.actualHeight, sizing.scale)

\* a capture at 300 dpi on a screen of ratio 5/4, of an element a quarter
\* pixel wider than two pixels and one pixel high
C14_Witness ==
    /\ sizing.pc = "captured"
    /\ sizing.targetDPI = 300
    /\ sizing.d = Ratio(5, 4)
    /\ sizing.actualWidth = 9
    /\ sizing.actualHeight = 4
    /\ sizing.width = 8
    /\ sizing.height = 4

(***************************************************************************)
(* C15: DPI doubling, as claimed.  The capture width and height at         *)
(* targetDPI = 192 are exactly twice those at targetDPI = 96, for the same *)
(* staging size and the same device pixel ratio.                           *)
(***************************************************************************)
C15_DpiDoubling ==
    (sizing.pc = "captured" /\ sizing.targetDPI = 96)
        => /\ CaptureSize(sizing.actualWidth, Scale(192, sizing.d)) = 2 * sizing.width
           /\ CaptureSize(sizing.actualHeight, Scale(192, sizing.d)) = 2 * sizing.height

(***************************************************************************)
(* C15, amended: DPI doubling up to the rounding of the ceiling.  The      *)
(* capture width and height at targetDPI = 192 are twice those at          *)
(* targetDPI = 96 or one pixel less.                                       *)
(***************************************************************************)
C15_DpiDoublingWithinOnePixel ==
    (sizing.pc = "captured" /\ sizing.targetDPI = 96)
        => LET w192 == CaptureSize(sizing.actualWidth, Scale(192, sizing.d))
               h192 == CaptureSize(sizing.actualHeight, Scale(192, sizing.d))
           IN /\ w192 \in {2 * sizing.width - 1, 2 * sizing.width}
              /\ h192 \in {2 * sizing.height - 1, 2 * sizing.height}

\* a capture at 96 dpi whose width doubles exactly at 192 dpi and whose
\* height comes out one pixel short of the double
C15_Witness ==
    /\ sizing.pc = "captured"
    /\ sizing.targetDPI = 96
    /\ CaptureSize(sizing.actualWidth, Scale(192, sizing.d)) = 2 * sizing.width
    /\ CaptureSize(sizing.actualHeight, Scale(192, sizing.d)) = 2 * sizing.height - 1

(***************************************************************************)
(* C17: device pixel ratio clamp.  For every value the runtime reports,    *)
(* the divisor d of the scale computation is at least 1, so it is not zero *)
(* and the scale is at most targetDPI / 72.                                *)
(***************************************************************************)
C17_RatioClamped ==
    Scaled =>
        /\ sizing.d.num # 0
        /\ sizing.d.num >= sizing.d.den
        /\ sizing.scale.num * 72 <= sizing.targetDPI * sizing.scale.den

(***************************************************************************)
(* C16: encoding fallback.  The PNG encoding is attempted first, with the  *)
(* requested quality; the JPEG encoding only after the PNG encoding threw, *)
(* with quality max(quality, 0.8); when both threw, the conversion commits *)
(* no image, its staging element is released and, once the occurrence has  *)
(* settled on this its latest conversion (no conversion of the occurrence  *)
(* having been superseded), it displays the fallback.                      *)
(***************************************************************************)
C16_EncodingFallback ==
    \A c \in ConvIds :
        LET e == conversions[c].encodings
            q == conversions[c].req.quality
            o == conversions[c].occ
        IN /\ Len(e) <= 2
           /\ Len(e) >= 1 => (e[1].mime = "image/png" /\ e[1].quality = q)
           /\ Len(e) = 2 =>
                 /\ e[1].threw
                 /\ e[2].mime = "image/jpeg"
                 /\ e[2].quality = (IF q >= 80 THEN q ELSE 80)
           /\ (Len(e) = 2 /\ e[2].threw) =>
                 /\ ~conversions[c].wroteImage
                 /\ c \notin body
                 /\ ( /\ Settled(o)
                      /\ c \in LatestConversion(o)
                      /\ \A a \in ConversionsOf(o) : ~conversions[a].stale )
                        => View(o) = "Fallback"

(***************************************************************************)
(* C18: typesetting error.  A conversion whose source the typesetting      *)
(* engine rejects stops at the typesetting: it performs no capture and no  *)
(* encoding and commits no image.                                          *)
(***************************************************************************)
C18_TypesetErrorStops ==
    \A c \in ConvIds :
        ParseError(conversions[c].req.math)
            => /\ ~conversions[c].captured
               /\ conversions[c].encodings = <<>>
               /\ ~conversions[c].wroteImage

(***************************************************************************)
(* C19: staging exclusivity.  In every step at most one conversion acts;   *)
(* the only staging element a step attaches is the one of the conversion   *)
(* it starts, the only one it detaches is the one of the conversion that   *)
(* acts, the records of all other conversions stay as they are, and so     *)
(* does the state of every occurrence other than the acting conversion's.  *)
(***************************************************************************)
C19_Step ==
    LET started == (1..Len(conversions')) \ ConvIds
        acting == {c \in ConvIds : conversions'[c] # conversions[c]} \cup started
        owners == {conversions'[c].occ : c \in acting}
    IN /\ Cardinality(acting) <= 1
       /\ body' \ body \subseteq started
       /\ body \ body' \subseteq acting
       /\ acting # {} =>
             \A o \in Occurrences \ owners :
                 /\ mounted'[o] = mounted[o]
                 /\ props'[o] = props[o]
                 /\ imageDataUrl'[o] = imageDataUrl[o]
                 /\ isLoading'[o] = isLoading[o]
                 /\ naturalWidth'[o] = naturalWidth[o]
                 /\ gen'[o] = gen[o]

C19_StagingExclusive == [][C19_Step]_vars

\* a conversion has committed its image and released its staging element while
\* an older conversion of the same occurrence and a conversion of the other
\* occurrence still have theirs
C19_Witness ==
    \E c \in ConvIds : \E d \in ConvIds : \E e \in ConvIds :
        /\ conversions[c].pc = "done"
        /\ conversions[c].wroteImage
        /\ c \notin body
        /\ d < c
        /\ conversions[d].occ = conversions[c].occ
        /\ conversions[d].pc # "done"
        /\ d \in body
        /\ conversions[e].occ # conversions[c].occ
        /\ conversions[e].pc # "done"
        /\ e \in body

\* the style injections of the post-processing: tag prefix and css
Injections ==
    {<<"code", CodeCss>>, <<"table", TableCss>>, <<"th", ThCss>>, <<"td", TdCss>>,
     <<"blockquote", BlockquoteCss>>}
      \cup {<<"h" \o ToString(i), HeadingCss(i)>> : i \in 1..6}

StyleCount(tok) ==
    Cardinality({j \in 1..Len(tok.attrs) : tok.attrs[j][1] = "style"})

(***************************************************************************)
(* C20: injection idempotence.  In a fragment, whose elements have been    *)
(* through each injection once, every element has at most one style        *)
(* attribute, and applying any one injection again leaves the fragment as  *)
(* it is.                                                                  *)
(***************************************************************************)
C20_InjectionIdempotent ==
    \A k \in 1..Len(fragments) :
        /\ \A i \in 1..Len(fragments[k]) :
              IsTag(fragments[k][i]) => StyleCount(fragments[k][i]) <= 1
        /\ \A inj \in Injections :
              Inject(fragments[k], inj[1], inj[2]) = fragments[k]

\* the tag carries a style attribute of exactly this css
HasStyle(tok, css) == \E j \in 1..Len(tok.attrs) : tok.attrs[j] = <<"style", css>>

\* the token at index i lies inside a pre element
InsidePre(toks, i) == \E q \in PreSet(toks) : q < i /\ i < EndOf(toks, q)

(***************************************************************************)
(* C21: injection targets.  In a fragment, the css of an injection is      *)
(* found only on opening tags of the element kind of that injection; the   *)
(* inline-code css is on no code element inside a pre block, and the th    *)
(* css on no tag other than th (not on thead).                             *)
(***************************************************************************)
C21_InjectionTargets ==
    \A k \in 1..Len(fragments) :
        \A i \in 1..Len(fragments[k]) :
            \A inj \in Injections :
                (IsTag(fragments[k][i]) /\ HasStyle(fragments[k][i], inj[2]))
                    => /\ fragments[k][i].name = inj[1]
                       /\ inj[1] = "code" => ~InsidePre(fragments[k], i)

\* the container has been created and styled
Staged == staging.pc \in {"staged", "adjusted"}

\* how far the formula lies from the centred position along one axis, in
\* hundredths of a pixel
Deviation(placement) == Abs(50 * placement.slack - 100 * placement.before)

(***************************************************************************)
(* C22: padding recentring.  The padding of the staging container is       *)
(* rewritten after the settle delay only when the formula lies more than   *)
(* 1px off the centred position on some axis, and when no side is clamped  *)
(* at zero the two paddings of each axis add up to what they added up to   *)
(* before, so the container keeps its size.                                *)
(***************************************************************************)
C22_PaddingRecentred ==
    (staging.pc = "adjusted" /\ staging.adjusted) =>
        /\ Deviation(staging.x) > 100 \/ Deviation(staging.y) > 100
        /\ (staging.padding.top > 0 /\ staging.padding.bottom > 0)
              => staging.padding.top + staging.padding.bottom
                    = staging.used.top + staging.used.bottom
        /\ (staging.padding.left > 0 /\ staging.padding.right > 0)
              => staging.padding.left + staging.padding.right
                    = staging.used.left + staging.used.right

(***************************************************************************)
(* C23: base font size.  With a font size context of n pixels the staging  *)
(* font size is max(1.1 * n, 18) px in block mode and max(n, 14) px in     *)
(* inline mode; without one it is 20 px or 16 px; it is positive and not   *)
(* below the floor of its mode.                                            *)
(***************************************************************************)
C23_BaseFontSize ==
    Staged =>
        LET given == staging.parentFontSize # ""
            n == IF given
                 THEN CHOOSE m \in 0..99 : ToString(m) \o "px" = staging.parentFontSize
                 ELSE 0
            floor == IF staging.displayMode THEN 1800 ELSE 1400
        IN /\ given /\ staging.displayMode
                => staging.fontSize = (IF 110 * n >= 1800 THEN 110 * n ELSE 1800)
           /\ given /\ ~staging.displayMode
                => staging.fontSize = (IF 100 * n >= 1400 THEN 100 * n ELSE 1400)
           /\ ~given => staging.fontSize = (IF staging.displayMode THEN 2000 ELSE 1600)
           /\ staging.fontSize >= floor
           /\ staging.fontSize > 0

\* a block formula in a context of 20 px is staged at 22 px
C23_Witness ==
    /\ Staged
    /\ staging.displayMode
    /\ staging.parentFontSize = "20px"
    /\ staging.fontSize = 2200

(***************************************************************************)
(* C24: loading flag.  While the conversion of the latest request of an    *)
(* occurrence is still in flight, the occurrence is displayed as Loading;  *)
(* an older conversion that resolves does not clear it.                    *)
(***************************************************************************)
C24_LoadingWhilePending ==
    \A o \in Occurrences :
        (\E c \in LatestConversion(o) : conversions[c].pc # "done")
            => (isLoading[o] /\ View(o) = "Loading")

\* every formula image of the preview has a data URL and has been decoded
ImagesReady ==
    LET toks == Expand(dom)
    IN \A i \in 1..Len(toks) :
           (toks[i].name = "img" /\ HasClass(toks[i], "math-image"))
               => /\ StartsWith(AttrValue(toks[i], "src"), "data:image")
                  /\ toks[i].nw > 0

(***************************************************************************)
(* C25: what the gate guarantees.  A handleCopy step builds a fragment and *)
(* goes on to the clipboard only when every img.math-image of the preview  *)
(* has a src starting with data:image and a natural width above 0; in any  *)
(* other state it shows the refusal and does nothing else.                 *)
(***************************************************************************)
C25_Step ==
    /\ Len(fragments') > Len(fragments) => ImagesReady
    /\ (copy' # copy /\ copy.pc # "writing") =>
          IF ImagesReady
          THEN copy'.passedGate /\ Len(fragments') = Len(fragments) + 1
          ELSE /\ ~copy'.passedGate
               /\ copy'.alerts = <<"refusal">>
               /\ copy'.tiers = <<>>
               /\ copy'.wrote = "nothing"
               /\ copy'.selected = "nothing"
               /\ fragments' = fragments
               /\ dom' = dom

C25_GateGuarantee == [][C25_Step]_vars

\* an export has passed the check with a decoded formula image in the
\* preview, and its fragment holds that image
C25_Witness ==
    /\ copy.passedGate
    /\ Len(fragments) >= 1
    /\ HasTag(fragments[Len(fragments)], "img")
    /\ \E o \in Occurrences : mounted[o] /\ naturalWidth[o] > 0

(***************************************************************************)
(* C26: transient menu and tooltip release.  A context menu that has seen  *)
(* a document click since it was attached is detached and its closeMenu    *)
(* listener unregistered; no menu is detached twice and removeChild is     *)
(* never called on a detached menu; a tooltip whose timer has fired is     *)
(* detached.                                                               *)
(***************************************************************************)
C26_TransientsReleased ==
    /\ \A m \in 1..Len(overlay.menus) :
          LET menu == overlay.menus[m]
          IN /\ menu.clicked => (~menu.attached /\ ~menu.listening)
             /\ menu.detaches <= 1
             /\ menu.failedRemovals = 0
             /\ menu.attached <=> menu.detaches = 0
    /\ \A t \in 1..Len(overlay.tooltips) :
          ~overlay.tooltips[t].pending => ~overlay.tooltips[t].attached

\* two menus have been closed, a third one is open, one tooltip has timed out
\* and another is still shown
C26_Witness ==
    /\ Len(overlay.menus) >= 3
    /\ overlay.menus[1].detaches = 1
    /\ overlay.menus[2].detaches = 1
    /\ overlay.menus[3].attached
    /\ \E t \in 1..Len(overlay.tooltips) : ~overlay.tooltips[t].pending
    /\ \E t \in 1..Len(overlay.tooltips) : overlay.tooltips[t].attached

=============================================================================
